---- MODULE Spec2Model ----
(***************************************************************************)
(* A model of the AHYTE configuration store (src/config.py) and of the     *)
(* start-up of the market data pipeline (src/data_pipeline.py).            *)
(*                                                                         *)
(* Python objects are modelled with an explicit heap: a dict is a heap     *)
(* cell named by a reference, and a value that is a dict holds the         *)
(* reference, so that two names for one dict (self._config and             *)
(* self._defaults, or a section shared by both) see each other's writes.   *)
(*                                                                         *)
(* Four specifications share the variables:                                *)
(*   Spec          load_config called repeatedly on one AHYTEConfig        *)
(*   SpecGet       get called on a configuration left by one load_config   *)
(*   SpecFirebase  initialize_firebase, statement by statement             *)
(*   SpecPipeline  MarketDataPipeline.__init__, one exchange per step      *)
(***************************************************************************)
EXTENDS Integers, Sequences, FiniteSets, TLC

VARIABLES
    heap,       \* reference -> dict (function from key to value)
    config,     \* self._config: the reference of the top-level dict
    loads,      \* number of load_config calls made so far
    last,       \* the last call made on the config store, with its inputs and outcome
    fb,         \* initialize_firebase: its inputs, position and effects
    pl          \* MarketDataPipeline.__init__: its position and fields

vars == <<heap, config, loads, last, fb, pl>>

----------------------------------------------------------------------------
(* Bounds *)

\* load_config calls made on one AHYTEConfig instance
MaxLoads == 2
\* longest key sequence handed to get
MaxKeys == 3
\* longest configured exchange-name list
MaxExchanges == 3

----------------------------------------------------------------------------
(* Values.  Every value is a record of one shape, so that any two can be   *)
(* compared.  A number is the rational n/d in lowest terms, which is how   *)
(* two decimal spellings of one float compare equal.  A string is its      *)
(* sequence of characters.  A dict value holds the heap reference.         *)

Num(n, d)  == [t |-> "num",  n |-> n, d |-> d, s |-> <<>>]
Str(cs)    == [t |-> "str",  n |-> 0, d |-> 1, s |-> cs]
List(xs)   == [t |-> "list", n |-> 0, d |-> 1, s |-> xs]
Dict(ref)  == [t |-> "dict", n |-> 0, d |-> 1, s |-> <<ref>>]
NoneV      == [t |-> "none", n |-> 0, d |-> 1, s |-> <<>>]

IsDict(v)  == v.t = "dict"
RefOf(v)   == v.s[1]

EmptyDict  == [k \in {} |-> NoneV]

\* dict[key] = value
Put(dict, key, value) ==
    [k \in (DOMAIN dict) \cup {key} |-> IF k = key THEN value ELSE dict[k]]

RECURSIVE Gcd(_, _)
Gcd(a, b) == IF b = 0 THEN a ELSE Gcd(b, a % b)

Ratio(n, d) == LET g == Gcd(n, d) IN Num(n \div g, d \div g)

----------------------------------------------------------------------------
(* The default document, AHYTEConfig.__init__ *)

SectionNames == {"trading", "risk", "learning", "firebase"}

\* the dict object of a section of self._defaults
DRef(sec) == CASE sec = "trading"  -> "d_trading"
               [] sec = "risk"     -> "d_risk"
               [] sec = "learning" -> "d_learning"
               [] sec = "firebase" -> "d_firebase"

DefaultTrading ==
    [k \in {"max_position_size", "default_timeframe", "supported_exchanges"} |->
        CASE k = "max_position_size"   -> Ratio(1, 10)
          [] k = "default_timeframe"   -> Str(<<"1", "h">>)
          [] k = "supported_exchanges" -> List(<<"binance", "coinbase", "kraken">>)]

DefaultRisk ==
    [k \in {"max_drawdown", "volatility_threshold", "minimum_win_rate"} |->
        CASE k = "max_drawdown"         -> Ratio(25, 100)
          [] k = "volatility_threshold" -> Ratio(2, 100)
          [] k = "minimum_win_rate"     -> Ratio(45, 100)]

DefaultLearning ==
    [k \in {"retrain_interval_hours", "minimum_samples", "validation_split"} |->
        CASE k = "retrain_interval_hours" -> Ratio(24, 1)
          [] k = "minimum_samples"        -> Ratio(100, 1)
          [] k = "validation_split"       -> Ratio(2, 10)]

DefaultFirebase ==
    [k \in {"collection_traders", "collection_strategies",
            "collection_trades", "collection_market_data"} |->
        CASE k = "collection_traders"     -> Str(<<"t","r","a","d","e","r","s">>)
          [] k = "collection_strategies"  -> Str(<<"s","t","r","a","t","e","g","i","e","s">>)
          [] k = "collection_trades"      -> Str(<<"t","r","a","d","e","s">>)
          [] k = "collection_market_data" -> Str(<<"m","a","r","k","e","t","_","d","a","t","a">>)]

DefaultSection(sec) == CASE sec = "trading"  -> DefaultTrading
                         [] sec = "risk"     -> DefaultRisk
                         [] sec = "learning" -> DefaultLearning
                         [] sec = "firebase" -> DefaultFirebase

\* the dict objects a json.load of the config file creates, one per nested object
FileSections == {"trading", "risk", "firebase", "extra"}
FRef(sec) == CASE sec = "trading"  -> "f_trading"
               [] sec = "risk"     -> "f_risk"
               [] sec = "firebase" -> "f_firebase"
               [] sec = "extra"    -> "f_extra"

Refs == {"empty", "defaults", "cfg"} \cup {DRef(s) : s \in SectionNames}
            \cup {FRef(s) : s \in FileSections}

\* the heap once __init__ has assigned self._config = {} and self._defaults
InitHeap ==
    [r \in Refs |->
        IF r = "defaults" THEN [s \in SectionNames |-> Dict(DRef(s))]
        ELSE IF \E s \in SectionNames : r = DRef(s)
             THEN DefaultSection(CHOOSE s \in SectionNames : r = DRef(s))
             ELSE EmptyDict]

----------------------------------------------------------------------------
(* Documents as plain values (no references): what a JSON file holds, and  *)
(* what a dict of the heap holds when read down to its leaves.             *)

Obj(items) == [kind |-> "obj",  items |-> items,     val |-> NoneV]
Leaf(v)    == [kind |-> "leaf", items |-> EmptyDict, val |-> v]

\* the document a top-level dict of the heap holds
Deep(h, ref) ==
    [k \in DOMAIN h[ref] |->
        IF IsDict(h[ref][k]) THEN Obj(h[RefOf(h[ref][k])]) ELSE Leaf(h[ref][k])]

DefaultDoc == [s \in SectionNames |-> Obj(DefaultSection(s))]

----------------------------------------------------------------------------
(* The environment and the coercions of _override_from_env.                *)
(* An environment value is a string over the digits, "." and "x"; on such  *)
(* strings Python's float() accepts exactly digits with at most one "."    *)
(* and at least one digit.                                                 *)

Digits == {"0", "1", "2", "3", "4", "5", "6", "7", "8", "9"}

DigitVal(c) == CASE c = "0" -> 0 [] c = "1" -> 1 [] c = "2" -> 2 [] c = "3" -> 3
                 [] c = "4" -> 4 [] c = "5" -> 5 [] c = "6" -> 6 [] c = "7" -> 7
                 [] c = "8" -> 8 [] c = "9" -> 9

RECURSIVE Pow10(_)
Pow10(k) == IF k = 0 THEN 1 ELSE 10 * Pow10(k - 1)

\* the digits of cs read as one decimal integer, the "." skipped
RECURSIVE DigitsValue(_, _)
DigitsValue(cs, acc) ==
    IF cs = <<>> THEN acc
    ELSE IF Head(cs) = "." THEN DigitsValue(Tail(cs), acc)
         ELSE DigitsValue(Tail(cs), 10 * acc + DigitVal(Head(cs)))

DotPositions(cs) == {i \in 1..Len(cs) : cs[i] = "."}

\* float(cs): [ok |-> FALSE] stands for ValueError
FloatCast(cs) ==
    IF /\ \A i \in 1..Len(cs) : cs[i] \in Digits \cup {"."}
       /\ Cardinality(DotPositions(cs)) <= 1
       /\ \E i \in 1..Len(cs) : cs[i] \in Digits
    THEN LET frac == IF DotPositions(cs) = {} THEN 0
                     ELSE Len(cs) - (CHOOSE i \in DotPositions(cs) : TRUE)
         IN [ok |-> TRUE, val |-> Ratio(DigitsValue(cs, 0), Pow10(frac))]
    ELSE [ok |-> FALSE, val |-> NoneV]

\* str(cs) of a string is the string
StrCast(cs) == [ok |-> TRUE, val |-> Str(cs)]

\* env_mappings, in the order the dict literal lists them
EnvMappings == <<
    [var |-> "AHYTE_MAX_POSITION_SIZE", section |-> "trading",  key |-> "max_position_size", cast |-> "float"],
    [var |-> "AHYTE_MAX_DRAWDOWN",      section |-> "risk",     key |-> "max_drawdown",      cast |-> "float"],
    [var |-> "FIREBASE_PROJECT_ID",     section |-> "firebase", key |-> "project_id",        cast |-> "str"] >>

EnvVars == {EnvMappings[i].var : i \in 1..Len(EnvMappings)}

TypeCast(cast, cs) == IF cast = "float" THEN FloatCast(cs) ELSE StrCast(cs)

\* os.environ restricted to the recognized names: a function from the names that are set
Unset == <<"unset">>
EnvStrings == { <<".", "3", "0">>, <<"1", ".">>, <<"x">>, <<>> }
ProjectIds == { <<"p">> }
EnvValues(var) ==
    CASE var = "AHYTE_MAX_POSITION_SIZE" -> { <<"1", ".">>, <<"x">> }
      [] var = "AHYTE_MAX_DRAWDOWN"      -> { <<".", "3", "0">>, <<>> }
      [] var = "FIREBASE_PROJECT_ID"     -> ProjectIds
Environs == { e \in [EnvVars -> EnvStrings \cup ProjectIds \cup {Unset}] :
                 \A v \in EnvVars : e[v] \in EnvValues(v) \cup {Unset} }
IsSet(env, var) == env[var] # Unset

\* OverrideOne as it would be if the assignment kept a value already present
\* (setdefault instead of item assignment)
OverrideOneKeepsExisting(h, c, env, m) ==
    IF ~IsSet(env, m.var) THEN [heap |-> h, raised |-> "none"]
    ELSE LET cast == TypeCast(m.cast, env[m.var]) IN
         IF ~cast.ok THEN [heap |-> h, raised |-> "none"]
         ELSE IF m.section \notin DOMAIN h[c] THEN [heap |-> h, raised |-> "none"]
         ELSE IF ~IsDict(h[c][m.section]) THEN [heap |-> h, raised |-> "TypeError"]
         ELSE LET r == RefOf(h[c][m.section]) IN
              IF m.key \in DOMAIN h[r] THEN [heap |-> h, raised |-> "none"]
              ELSE [heap |-> [h EXCEPT ![r] = Put(h[r], m.key, cast.val)], raised |-> "none"]

\* one turn of the loop of _override_from_env on the top-level dict c.
\* The right-hand side is evaluated first (ValueError), then self._config[section]
\* (KeyError), then the item assignment, which raises TypeError when the section is
\* not a dict; ValueError and KeyError are caught and logged, TypeError is not.
OverrideOne(h, c, env, m) ==
    IF ~IsSet(env, m.var) THEN [heap |-> h, raised |-> "none"]
    ELSE LET cast == TypeCast(m.cast, env[m.var]) IN
         IF ~cast.ok THEN [heap |-> h, raised |-> "none"]
         ELSE IF m.section \notin DOMAIN h[c] THEN [heap |-> h, raised |-> "none"]
         ELSE IF ~IsDict(h[c][m.section]) THEN [heap |-> h, raised |-> "TypeError"]
         ELSE LET r == RefOf(h[c][m.section]) IN
              [heap |-> [h EXCEPT ![r] = Put(h[r], m.key, cast.val)], raised |-> "none"]

\* _override_from_env from the i-th mapping on; an uncaught exception ends the loop
RECURSIVE OverrideFrom(_, _, _, _)
OverrideFrom(h, c, env, i) ==
    IF i > Len(EnvMappings) THEN [heap |-> h, raised |-> "none"]
    ELSE LET one == OverrideOne(h, c, env, EnvMappings[i]) IN
         IF one.raised # "none" THEN one
         ELSE OverrideFrom(one.heap, c, env, i + 1)

OverrideFromEnv(h, c, env) == OverrideFrom(h, c, env, 1)

----------------------------------------------------------------------------
(* The config file handed to load_config *)

NoDoc == [s \in {} |-> Leaf(NoneV)]

\* config_path is None (or empty)
FileNone    == [kind |-> "none",    doc |-> NoDoc]
\* config_path names no existing file
FileMissing == [kind |-> "missing", doc |-> NoDoc]
\* the file exists and is not valid JSON
FileInvalid == [kind |-> "invalid", doc |-> NoDoc]
\* the file is valid JSON whose top level is not an object, such as [1]
FileArray   == [kind |-> "array",   doc |-> NoDoc]
\* the file is a JSON object
FileDoc(d)  == [kind |-> "doc",     doc |-> d]

One(k, v) == [x \in {k} |-> v]

FileDocs == {
    NoDoc,
    One("risk", Obj(One("max_drawdown", Ratio(3, 10)))),
    One("risk", Obj(One("volatility_threshold", Ratio(5, 100)))),
    [s \in {"trading", "risk"} |->
        IF s = "trading" THEN Obj(One("max_position_size", Ratio(2, 10)))
        ELSE Obj([k \in {"max_drawdown", "volatility_threshold"} |->
                    IF k = "max_drawdown" THEN Ratio(4, 10) ELSE Ratio(5, 100)])],
    One("risk", Leaf(Ratio(5, 1))),
    One("extra", Obj(One("k", Ratio(1, 1)))),
    One("firebase", Obj(One("project_id", Str(<<"q">>)))) }

Files == {FileNone, FileMissing, FileInvalid, FileArray} \cup {FileDoc(d) : d \in FileDocs}

\* a document whose every section is a mapping: the shape the configuration has
ValidDoc(d) == \A s \in DOMAIN d : d[s].kind = "obj"

\* config_path and Path(config_path).exists()
PathExists(file) == file.kind \in {"invalid", "array", "doc"}

\* the heap after json.load(f) of an object: one fresh dict per nested object
\* (the dicts of an earlier load are no longer referenced)
JsonLoad(h, doc) ==
    [r \in Refs |->
        IF \E s \in FileSections : r = FRef(s)
        THEN LET s == CHOOSE x \in FileSections : r = FRef(x) IN
             IF s \in DOMAIN doc /\ doc[s].kind = "obj" THEN doc[s].items ELSE EmptyDict
        ELSE h[r]]

\* {**self._defaults, **file_config}: a new top-level dict; each value is the file's
\* where the file has the key, and otherwise the very object self._defaults holds
MergeTop(h, doc) ==
    [s \in (DOMAIN h["defaults"]) \cup (DOMAIN doc) |->
        IF s \in DOMAIN doc
        THEN (IF doc[s].kind = "obj" THEN Dict(FRef(s)) ELSE doc[s].val)
        ELSE h["defaults"][s]]

NotReached == [reached |-> FALSE, doc |-> NoDoc]
Reached(d) == [reached |-> TRUE,  doc |-> d]

\* Assemble as it would be if a file that does not parse fell back to the defaults
AssembleFallsBack(h, c, file) ==
    IF file.kind = "doc"
    THEN [heap |-> [JsonLoad(h, file.doc) EXCEPT !["cfg"] = MergeTop(h, file.doc)],
          config |-> "cfg", raised |-> "none"]
    ELSE [heap |-> [JsonLoad(h, NoDoc) EXCEPT !["cfg"] = EmptyDict],
          config |-> "defaults", raised |-> "none"]

\* load_config lines 58-65: the configuration before the environment is applied
Assemble(h, c, file) ==
    IF PathExists(file)
    THEN IF file.kind = "invalid"
         THEN [heap |-> h, config |-> c, raised |-> "JSONDecodeError"]
         ELSE IF file.kind = "array"
         THEN [heap |-> h, config |-> c, raised |-> "TypeError"]
         ELSE [heap |-> [JsonLoad(h, file.doc) EXCEPT !["cfg"] = MergeTop(h, file.doc)],
               config |-> "cfg", raised |-> "none"]
    ELSE [heap |-> [JsonLoad(h, NoDoc) EXCEPT !["cfg"] = EmptyDict],
          config |-> "defaults", raised |-> "none"]

\* load_config: every exception is logged and raised again
LoadResult(h, c, file, env) ==
    LET a == Assemble(h, c, file) IN
    IF a.raised # "none"
    THEN [heap |-> a.heap, config |-> a.config, raised |-> a.raised, pre |-> NotReached]
    ELSE LET o == OverrideFromEnv(a.heap, a.config, env) IN
         [heap |-> o.heap, config |-> a.config, raised |-> o.raised,
          pre |-> Reached(Deep(a.heap, a.config))]

----------------------------------------------------------------------------
(* get *)

GetOk(v)  == [raised |-> FALSE, val |-> v]

\* the loop of get from the current value on
RECURSIVE GetFrom(_, _, _, _)
GetFrom(h, current, keys, default) ==
    IF keys = <<>> THEN GetOk(current)
    ELSE IF IsDict(current) /\ Head(keys) \in DOMAIN h[RefOf(current)]
         THEN GetFrom(h, h[RefOf(current)][Head(keys)], Tail(keys), default)
         ELSE GetOk(default)

\* get as it would be without the isinstance test: "key in current" raises
\* TypeError on a number or None, and is False on a string or a list of names
RECURSIVE GetFromUnchecked(_, _, _, _)
GetFromUnchecked(h, current, keys, default) ==
    IF keys = <<>> THEN GetOk(current)
    ELSE IF current.t \in {"num", "none"} THEN [raised |-> TRUE, val |-> NoneV]
    ELSE IF IsDict(current) /\ Head(keys) \in DOMAIN h[RefOf(current)]
         THEN GetFromUnchecked(h, h[RefOf(current)][Head(keys)], Tail(keys), default)
         ELSE GetOk(default)

GetUnchecked(h, c, keys, default) == GetFromUnchecked(h, Dict(c), keys, default)

Get(h, c, keys, default) == GetFrom(h, Dict(c), keys, default)

\* the value get returns
GetVal(h, c, keys, default) == Get(h, c, keys, default).val

----------------------------------------------------------------------------
(* Spec: load_config called on one AHYTEConfig, with any file and environment *)

NoCall == [op |-> "none", file |-> FileNone, env |-> [v \in EnvVars |-> Unset],
           raised |-> "none", pre |-> NotReached]

IdleFb == [pc |-> "idle"]
IdlePl == [pc |-> "idle"]

Init ==
    /\ heap = InitHeap
    /\ config = "empty"
    /\ loads = 0
    /\ last = NoCall
    /\ fb = IdleFb
    /\ pl = IdlePl

DoLoad(file, env) ==
    LET r == LoadResult(heap, config, file, env) IN
    /\ loads < MaxLoads
    /\ heap' = r.heap
    /\ config' = r.config
    /\ loads' = loads + 1
    /\ last' = [op |-> "load_config", file |-> file, env |-> env,
                raised |-> r.raised, pre |-> r.pre]
    /\ UNCHANGED <<fb, pl>>

\* load_config(path) with a path that exists
LoadConfigFromFile ==
    \E file \in {f \in Files : PathExists(f)}, env \in Environs : DoLoad(file, env)

\* load_config(None), or with a path that does not exist
LoadConfigDefaults ==
    \E file \in {f \in Files : ~PathExists(f)}, env \in Environs : DoLoad(file, env)

Next == LoadConfigFromFile \/ LoadConfigDefaults

Spec == Init /\ [][Next]_vars

----------------------------------------------------------------------------
(* Claims about load_config, checked under Spec *)

NoEnv == [v \in EnvVars |-> Unset]
Mappings == {EnvMappings[i] : i \in 1..Len(EnvMappings)}

\* the variable is set and its value coerces
EnvCoercible(env, m) == IsSet(env, m.var) /\ TypeCast(m.cast, env[m.var]).ok
\* the variable is set and its value fails coercion
EnvFails(env, m) == IsSet(env, m.var) /\ ~TypeCast(m.cast, env[m.var]).ok

\* no file, or a file whose document maps every section to a mapping
FileValid(file) == ~PathExists(file) \/ (file.kind = "doc" /\ ValidDoc(file.doc))

Supplies(doc, s, k) == s \in DOMAIN doc /\ doc[s].kind = "obj" /\ k \in DOMAIN doc[s].items

AllSections == SectionNames \cup FileSections
AllKeys == UNION {DOMAIN DefaultSection(s) : s \in SectionNames}
               \cup {"project_id", "k", "absent"}
DefaultArgs == {NoneV, Str(<<"d">>)}

\* what the layered lookup of (s, k) is to return: file, else default, else d
Layered(doc, s, k, d) ==
    IF Supplies(doc, s, k) THEN doc[s].items[k]
    ELSE IF s \in SectionNames /\ k \in DOMAIN DefaultSection(s) THEN DefaultSection(s)[k]
    ELSE d

\* C2: after a load of a valid override document with no environment overrides,
\* get(section, key) is the file's value where the file supplies the nested key, the
\* default document's value for every nested key the file does not supply (also in
\* a section the file only partly specifies), and the default argument otherwise.
C2_FileOverDefaults ==
    (/\ last.op = "load_config"
     /\ last.file.kind = "doc"
     /\ ValidDoc(last.file.doc)
     /\ last.env = NoEnv)
    => /\ last.raised = "none"
       /\ \A s \in AllSections, k \in AllKeys, d \in DefaultArgs :
            GetVal(heap, config, <<s, k>>, d) = Layered(last.file.doc, s, k, d)

\* C3: with a valid override document or no file, load_config completes and every
\* recognized environment variable that is set to a coercible value gives its
\* nested key the coerced value, whatever the default and the file say.
C3_EnvOverridesWin ==
    (last.op = "load_config" /\ FileValid(last.file))
    => /\ last.raised = "none"
       /\ \A m \in Mappings :
            EnvCoercible(last.env, m)
            => GetVal(heap, config, <<m.section, m.key>>, NoneV)
                 = TypeCast(m.cast, last.env[m.var]).val

\* a load from a file that sets risk.max_drawdown to 0.4, with
\* AHYTE_MAX_DRAWDOWN=".30": the configuration holds 0.3
C3_Witness ==
    /\ last.op = "load_config"
    /\ last.file.kind = "doc"
    /\ Supplies(last.file.doc, "risk", "max_drawdown")
    /\ last.file.doc["risk"].items["max_drawdown"] = Ratio(4, 10)
    /\ last.env["AHYTE_MAX_DRAWDOWN"] = <<".", "3", "0">>
    /\ last.raised = "none"
    /\ GetVal(heap, config, <<"risk", "max_drawdown">>, NoneV) = Ratio(3, 10)

\* the value of (s, k) in a document, None when absent
DocVal(doc, s, k) == IF Supplies(doc, s, k) THEN doc[s].items[k] ELSE NoneV

\* C4: a recognized environment variable whose value fails coercion does not make
\* load_config fail; its nested key keeps the value it had before the override
\* step, which is the file's value if the file supplies it and else the default;
\* and the other recognized variables are still applied.
C4_FailedCoercionKeepsPrior ==
    (last.op = "load_config" /\ FileValid(last.file))
    => \A m \in Mappings :
         EnvFails(last.env, m)
         => /\ last.raised = "none"
            /\ GetVal(heap, config, <<m.section, m.key>>, NoneV)
                 = DocVal(last.pre.doc, m.section, m.key)
            /\ GetVal(heap, config, <<m.section, m.key>>, NoneV)
                 = Layered(last.file.doc, m.section, m.key, NoneV)
            /\ \A o \in Mappings :
                 EnvCoercible(last.env, o)
                 => GetVal(heap, config, <<o.section, o.key>>, NoneV)
                      = TypeCast(o.cast, last.env[o.var]).val

C10_DefaultsUnmodified == Deep(heap, "defaults") = DefaultDoc

----------------------------------------------------------------------------
(* SpecGet: get called on the configuration one load_config left behind *)

KeyPool == {"risk", "max_drawdown", "absent"}

RECURSIVE SeqsUpTo(_, _)
SeqsUpTo(S, n) ==
    IF n = 0 THEN {<<>>}
    ELSE LET shorter == SeqsUpTo(S, n - 1) IN
         shorter \cup {Append(q, x) : q \in shorter, x \in S}

KeySeqs == SeqsUpTo(KeyPool, MaxKeys)

GetEnvirons == {NoEnv, [v \in EnvVars |-> IF v = "FIREBASE_PROJECT_ID" THEN <<"p">>
                                          ELSE <<".", "3", "0">>]}

NoGet == [op |-> "none", keys |-> <<>>, default |-> NoneV, result |-> GetOk(NoneV)]

InitGet ==
    /\ \E file \in Files, env \in GetEnvirons :
         LET r == LoadResult(InitHeap, "empty", file, env) IN
         /\ heap = r.heap
         /\ config = r.config
    /\ loads = 1
    /\ last = NoGet
    /\ fb = IdleFb
    /\ pl = IdlePl

\* config.get(*keys, default=default)
CallGet ==
    \E keys \in KeySeqs, default \in DefaultArgs :
        /\ last' = [op |-> "get", keys |-> keys, default |-> default,
                    result |-> Get(heap, config, keys, default)]
        /\ UNCHANGED <<heap, config, loads, fb, pl>>

NextGet == CallGet

SpecGet == InitGet /\ [][NextGet]_vars

\* the lookup get is to compute: the value reached by following the keys from the
\* top-level mapping, and d when some step is not a mapping holding the next key
RefLookup(h, c, keys, d) ==
    LET n == Len(keys)
        at[i \in 0..n] ==
            IF i = 0 THEN [ok |-> TRUE, v |-> Dict(c)]
            ELSE IF /\ at[i - 1].ok
                    /\ IsDict(at[i - 1].v)
                    /\ keys[i] \in DOMAIN h[RefOf(at[i - 1].v)]
                 THEN [ok |-> TRUE, v |-> h[RefOf(at[i - 1].v)][keys[i]]]
                 ELSE [ok |-> FALSE, v |-> NoneV]
    IN IF at[n].ok THEN at[n].v ELSE d

\* C7: get returns the value the key sequence leads to, and the default argument
\* as soon as the current value is not a mapping or lacks the next key; it never
\* raises and leaves the configuration as it was.
C7_GetIsSafeLookup ==
    [][ last'.op = "get"
        => /\ ~last'.result.raised
           /\ last'.result.val = RefLookup(heap, config, last'.keys, last'.default)
           /\ heap' = heap
           /\ config' = config ]_vars

\* a get whose third key meets a number: get("risk", "max_drawdown", "risk")
\* on a configuration that has risk.max_drawdown returns the default argument
C7_Witness ==
    /\ last.op = "get"
    /\ last.keys = <<"risk", "max_drawdown", "risk">>
    /\ GetVal(heap, config, <<"risk", "max_drawdown">>, NoneV).t = "num"
    /\ last.default = Str(<<"d">>)
    /\ last.result = GetOk(Str(<<"d">>))

----------------------------------------------------------------------------
(* SpecFirebase: initialize_firebase, statement by statement.              *)
(* fb holds the inputs (whether an app is already initialized, the         *)
(* FIREBASE_SERVICE_ACCOUNT variable, the serviceAccountKey.json file, the *)
(* ambient credentials, whether health/test already exists), the position  *)
(* pc, and the effects: the sources tried, the credential, the document,   *)
(* the store operations issued, and the exception raised.                  *)

EnvAccountStates == {"unset", "valid", "badjson", "badcred"}
KeyFileStates    == {"missing", "valid", "invalid"}
AmbientStates    == {"valid", "missing"}

\* SelectSource as it would be with the file checked before the environment
SelectSourceFileFirst(f) ==
    IF f.keyfile # "missing" THEN "file"
    ELSE IF f.envSA # "unset" THEN "env"
    ELSE "ambient"

\* lines 99-107: the one credential source the if/elif/else selects
SelectSource(f) ==
    IF f.envSA # "unset" THEN "env"
    ELSE IF f.keyfile # "missing" THEN "file"
    ELSE "ambient"

\* what building the credential of a source raises: json.loads and
\* credentials.Certificate raise ValueError on a bad document; ApplicationDefault()
\* is lazy and raises nothing here
SourceError(f, source) ==
    CASE source = "env"     -> IF f.envSA \in {"badjson", "badcred"} THEN "ValueError" ELSE "none"
      [] source = "file"    -> IF f.keyfile = "invalid" THEN "ValueError" ELSE "none"
      [] source = "ambient" -> "none"

\* test_doc.set(...): the document exists afterwards
StoreSet(present) == TRUE

\* test_doc.delete() as it would be if it addressed another document
StoreDeleteOther(present) == present

\* test_doc.delete(): the document is absent afterwards
StoreDelete(present) == FALSE

InitFirebase ==
    /\ heap = InitHeap
    /\ config = "defaults"
    /\ loads = 1
    /\ last = NoCall
    /\ pl = IdlePl
    /\ \E apps \in BOOLEAN, e \in EnvAccountStates, k \in KeyFileStates,
          a \in AmbientStates, d \in BOOLEAN :
         fb = [pc |-> "start", apps0 |-> apps, apps |-> apps, envSA |-> e,
               keyfile |-> k, ambient |-> a, doc0 |-> d, doc |-> d,
               tried |-> <<>>, cred |-> "none", client |-> FALSE,
               log |-> <<>>, raised |-> "none"]

Raise(f, e) == [f EXCEPT !.pc = "raised", !.raised = e]

\* line 97 with an app already initialized: no credential is built
SkipCredential ==
    /\ fb.pc = "start"
    /\ fb.apps
    /\ fb' = [fb EXCEPT !.pc = "client"]
    /\ UNCHANGED <<heap, config, loads, last, pl>>

\* lines 97-108: build the credential of the selected source, or raise
BuildCredential ==
    /\ fb.pc = "start"
    /\ ~fb.apps
    /\ LET source == SelectSource(fb)
           tried  == [fb EXCEPT !.tried = Append(fb.tried, source)] IN
       fb' = IF SourceError(fb, source) # "none"
             THEN Raise(tried, SourceError(fb, source))
             ELSE [tried EXCEPT !.pc = "init_app", !.cred = source]
    /\ UNCHANGED <<heap, config, loads, last, pl>>

\* line 110
InitializeApp ==
    /\ fb.pc = "init_app"
    /\ fb' = [fb EXCEPT !.pc = "client", !.apps = TRUE]
    /\ UNCHANGED <<heap, config, loads, last, pl>>

\* line 113: firestore.client() resolves the credential; ambient credentials that
\* are missing raise here
GetClient ==
    /\ fb.pc = "client"
    /\ fb' = IF fb.cred = "ambient" /\ fb.ambient = "missing"
             THEN Raise(fb, "DefaultCredentialsError")
             ELSE [fb EXCEPT !.pc = "set", !.client = TRUE]
    /\ UNCHANGED <<heap, config, loads, last, pl>>

\* line 116: the write reaches the store, or the call raises
SetHealthDoc ==
    /\ fb.pc = "set"
    /\ \E ok \in BOOLEAN :
         fb' = IF ok THEN [fb EXCEPT !.pc = "delete", !.doc = StoreSet(fb.doc),
                                     !.log = Append(fb.log, "set")]
               ELSE Raise(fb, "GoogleAPIError")
    /\ UNCHANGED <<heap, config, loads, last, pl>>

\* line 117: the delete reaches the store, or the call raises
DeleteHealthDoc ==
    /\ fb.pc = "delete"
    /\ \E ok \in BOOLEAN :
         fb' = IF ok THEN [fb EXCEPT !.pc = "done", !.doc = StoreDelete(fb.doc),
                                     !.log = Append(fb.log, "delete")]
               ELSE Raise(fb, "GoogleAPIError")
    /\ UNCHANGED <<heap, config, loads, last, pl>>

NextFirebase ==
    \/ SkipCredential
    \/ BuildCredential
    \/ InitializeApp
    \/ GetClient
    \/ SetHealthDoc
    \/ DeleteHealthDoc

SpecFirebase == InitFirebase /\ [][NextFirebase]_vars

\* the source the priority order names: environment, else file, else ambient
PrioritySource(f) ==
    CASE f.envSA # "unset"                           -> "env"
      [] f.envSA = "unset" /\ f.keyfile # "missing"  -> "file"
      [] f.envSA = "unset" /\ f.keyfile = "missing"  -> "ambient"

\* the source is present and does not yield a usable credential
SourceUnusable(f, source) ==
    \/ source = "env" /\ f.envSA \in {"badjson", "badcred"}
    \/ source = "file" /\ f.keyfile = "invalid"
    \/ source = "ambient" /\ f.ambient = "missing"

\* C8: with no app initialized yet, initialize_firebase tries exactly one
\* credential source, the first available in the order environment variable,
\* key file, ambient credentials; when that source is unusable the call raises,
\* and no lower source is tried.
C8_OneSourceNoFallback ==
    /\ Len(fb.tried) <= 1
    /\ (~fb.apps0 /\ fb.pc # "start")
       => /\ fb.tried = <<PrioritySource(fb)>>
          /\ fb.cred \in {"none", PrioritySource(fb)}
    /\ (~fb.apps0 /\ fb.pc = "done") => ~SourceUnusable(fb, PrioritySource(fb))
    /\ (~fb.apps0 /\ fb.pc \notin {"start", "init_app", "client"}
          /\ SourceUnusable(fb, PrioritySource(fb)))
       => fb.pc = "raised" /\ fb.raised \in {"ValueError", "DefaultCredentialsError"}

\* a bad service account in the environment, with a valid key file at hand: the
\* call has raised and only the environment was tried
C8_Witness ==
    /\ ~fb.apps0
    /\ fb.envSA = "badcred"
    /\ fb.keyfile = "valid"
    /\ fb.pc = "raised"
    /\ fb.tried = <<"env">>

\* C9: the liveness check writes health/test and then deletes it: a delete is
\* never issued before the write, and when initialize_firebase has returned the
\* document is absent.
C9_HealthDocRoundTrip ==
    /\ \A i \in 1..Len(fb.log) :
         fb.log[i] = "delete" => \E j \in 1..(i - 1) : fb.log[j] = "set"
    /\ fb.pc = "done" => (~fb.doc /\ fb.log = <<"set", "delete">>)

\* initialize_firebase has returned, where health/test existed beforehand
C9_Witness ==
    /\ fb.pc = "done"
    /\ fb.doc0
    /\ ~fb.doc
    /\ fb.log = <<"set", "delete">>

----------------------------------------------------------------------------
(* SpecPipeline: MarketDataPipeline.__init__, one exchange per step.       *)
(* pl holds the position pc, the configured list and the index of the next *)
(* name, self.exchanges (its keys; the handles are opaque), whether the    *)
(* attribute self._circuit_breakers exists yet and its contents, and the   *)
(* record of each attempt.                                                 *)

\* the names getattr(ccxt, exchange_id) resolves to a driver class
CcxtDrivers == {"binance", "coinbase", "kraken"}

\* the names a configured list is drawn from
ExchangeNames == {"binance", "kraken", "bogus"}

Attempt(id, recognized, loaded) == [id |-> id, recognized |-> recognized, loaded |-> loaded]

\* except AttributeError: a warning is logged and the loop goes on
OnAttributeError(p, id, recognized, loaded) ==
    [p EXCEPT !.attempts = Append(p.attempts, Attempt(id, recognized, loaded)),
              !.warnings = p.warnings \cup {id}]

\* any other exception of the loop body: logged, the exchange skipped
OnOtherError(p, id) ==
    [p EXCEPT !.attempts = Append(p.attempts, Attempt(id, TRUE, FALSE))]

\* line 48, self._circuit_breakers[exchange_id] = False, and line 49; reading an
\* attribute the object does not have yet raises AttributeError
SetBreakerClosed(p, id) ==
    IF p.has_cb
    THEN [p EXCEPT !.cb = Put(p.cb, id, FALSE),
                   !.attempts = Append(p.attempts, Attempt(id, TRUE, TRUE))]
    ELSE OnAttributeError(p, id, TRUE, TRUE)

\* the loop body as it would be with the handle stored before load_markets()
TryExchangeStoreFirst(p, id, reachable) ==
    IF id \notin CcxtDrivers THEN OnAttributeError(p, id, FALSE, FALSE)
    ELSE IF ~reachable THEN OnOtherError([p EXCEPT !.exchanges = p.exchanges \cup {id}], id)
    ELSE SetBreakerClosed([p EXCEPT !.exchanges = p.exchanges \cup {id}], id)

\* the loop body, lines 37-52, for one exchange_id; reachable is whether
\* load_markets() succeeds
TryExchange(p, id, reachable) ==
    IF id \notin CcxtDrivers THEN OnAttributeError(p, id, FALSE, FALSE)
    ELSE IF ~reachable THEN OnOtherError(p, id)
    ELSE SetBreakerClosed([p EXCEPT !.exchanges = p.exchanges \cup {id}], id)

\* the config files the pipeline is started under: one that sets the list, and one
\* whose trading section does not have it
ListFile(xs)    == FileDoc(One("trading", Obj(One("supported_exchanges", List(xs)))))
TimeframeFile   == FileDoc(One("trading", Obj(One("default_timeframe", Str(<<"4", "h">>)))))
PipelineFiles   == {FileNone, TimeframeFile}
                      \cup {ListFile(xs) : xs \in SeqsUpTo(ExchangeNames, MaxExchanges)}

\* lines 22-25 and 34, on the configuration the global config object holds
InitPipeline ==
    /\ \E file \in PipelineFiles :
         LET r == LoadResult(InitHeap, "empty", file, NoEnv) IN
         /\ heap = r.heap
         /\ config = r.config
    /\ loads = 1
    /\ last = NoCall
    /\ fb = IdleFb
    /\ pl = [pc |-> "loop",
             supported |-> GetVal(heap, config, <<"trading", "supported_exchanges">>,
                                  List(<<>>)).s,
             i |-> 1, exchanges |-> {}, has_cb |-> FALSE, cb |-> EmptyDict,
             attempts |-> <<>>, warnings |-> {}]

\* one turn of the loop of _initialize_exchanges
InitializeExchange ==
    /\ pl.pc = "loop"
    /\ pl.i <= Len(pl.supported)
    /\ \E reachable \in BOOLEAN :
         pl' = [TryExchange(pl, pl.supported[pl.i], reachable) EXCEPT !.i = pl.i + 1]
    /\ UNCHANGED <<heap, config, loads, last, fb>>

\* lines 28-30, after _initialize_exchanges has returned
FinishInit ==
    /\ pl.pc = "loop"
    /\ pl.i > Len(pl.supported)
    /\ pl' = [pl EXCEPT !.pc = "constructed", !.has_cb = TRUE, !.cb = EmptyDict]
    /\ UNCHANGED <<heap, config, loads, last, fb>>

NextPipeline == InitializeExchange \/ FinishInit

SpecPipeline == InitPipeline /\ [][NextPipeline]_vars

\* some attempt on the name passed load_markets()
Loaded(p, id) == \E k \in 1..Len(p.attempts) : p.attempts[k].id = id /\ p.attempts[k].loaded

\* C1: once construction is complete, every key of exchanges has a circuit-breaker
\* entry, and the entry is False (closed).
C1_ReadyHasClosedBreaker ==
    pl.pc = "constructed"
    => \A id \in pl.exchanges : id \in DOMAIN pl.cb /\ pl.cb[id] = FALSE

\* C5: a name is a key of exchanges only if it names a driver and a load_markets()
\* call on it succeeded; a name that is no driver, or that never passed
\* load_markets(), is not a key.
C5_OnlyLoadedExchangesStored ==
    /\ \A id \in pl.exchanges : id \in CcxtDrivers /\ Loaded(pl, id)
    /\ \A k \in 1..Len(pl.attempts) :
         (~pl.attempts[k].recognized \/ ~Loaded(pl, pl.attempts[k].id))
         => pl.attempts[k].id \notin pl.exchanges

\* construction complete on a list of an unknown name, a driver that could not be
\* reached and a driver that could: only the last is a key of exchanges
C5_Witness ==
    /\ pl.pc = "constructed"
    /\ pl.supported = <<"bogus", "kraken", "binance">>
    /\ ~Loaded(pl, "kraken")
    /\ pl.exchanges = {"binance"}

====
